---------------------------- MODULE Spec2Model ----------------------------
(***************************************************************************)
(* Model of the crate atomic_slice_pointer: the write-once containers      *)
(* OnceSlicePtr<T> (src/src/once_slice.rs) and OnceSlicePtrMetadata<T, M>  *)
(* (src/src/once_slice_metadata.rs).                                       *)
(*                                                                         *)
(* Every atomic access of the source (compare_exchange, load, store) is    *)
(* one step of the calling thread; the steps of different threads          *)
(* interleave freely.  The non-atomic write of the metadata cell is a step *)
(* of its own.  Methods taking `&mut self` (get_mut, get_mut_metadata,     *)
(* drop) need exclusive access, so they run only while no other call is    *)
(* in progress and are a single step.                                      *)
(*                                                                         *)
(* Spec          is the state machine of OnceSlicePtr,                     *)
(* SpecMetadata  is the state machine of OnceSlicePtrMetadata,             *)
(* SpecBoth      is a container of either type.                            *)
(***************************************************************************)
EXTENDS Integers, Sequences, FiniteSets

(* ------------------------------ bounds -------------------------------- *)

\* number of threads sharing the container
NumThreads == 2
\* total number of set / get / get_metadata calls begun in a run
MaxCalls == 3
\* longest sequence offered to set
MaxLen == 3

Threads == 1..NumThreads
\* the lengths offered: empty, one element, the longest
Lengths == {0, 1, MaxLen}

(* --------------------------- program values --------------------------- *)

\* null_mut(): the sentinel of the `ptr` field
NULL == 0
\* the address as_mut_ptr() gives for a boxed slice that owns no allocation
\* (a zero-length Box<[T]>): NonNull::dangling(), never null
Dangling == 1
\* MaybeUninit::uninit(): the metadata cell before any write
Uninit == 0
\* the value of `metadata` in a struct that has no such field (OnceSlicePtr)
Absent == Uninit - 1

VARIABLES
    ptr,            \* AtomicPtr<T> field
    len,            \* AtomicUsize field
    metadata_flag,  \* AtomicBool field (metadata variant)
    metadata,       \* MaybeUninit<UnsafeCell<M>> field (metadata variant)
    dropped,        \* the container has been dropped
    boxes,          \* one record per set call: the Box<[T]> (and M) it offers
    pc,             \* per thread: position inside the current call
    box,            \* per thread: index in boxes of the current set call (0: none)
    lptr,           \* per thread: the local `ptr` of get between its two loads
    result,         \* per thread: what the last get / get_metadata returned
    afterOk,        \* per thread: the current get began after a set returned Ok
    steps,          \* per thread: atomic operations done by the current call
    ngets,          \* number of get / get_metadata calls begun
    excl            \* what get_mut / get_mut_metadata returned, while that
                    \* exclusive borrow lasts

vars == <<ptr, len, metadata_flag, metadata, dropped, boxes, pc, box, lptr,
          result, afterOk, steps, ngets, excl>>

(* ------------------------------ helpers ------------------------------- *)

\* the elements of the k-th offered sequence, of length n: all offered
\* sequences have different elements ([1,2,3], [4,5,6], ...)
Elements(k, n) == [i \in 1..n |-> MaxLen * (k - 1) + i]

\* mutant: an empty box gives the null pointer
as_mut_ptr_null_when_empty(k, n) == IF n = 0 THEN NULL ELSE Dangling + k

\* Box<[T]>::as_mut_ptr of the k-th box holding n elements
as_mut_ptr(k, n) == IF n = 0 THEN Dangling ELSE Dangling + k

\* Option<&[T]> / Option<&M>
None(o) == [op |-> o, some |-> FALSE, ptr |-> NULL, len |-> 0, meta |-> Uninit]
SomeSlice(o, p, l) == [op |-> o, some |-> TRUE, ptr |-> p, len |-> l, meta |-> Uninit]
SomeMeta(o, m) == [op |-> o, some |-> TRUE, ptr |-> NULL, len |-> 0, meta |-> m]

\* the metadata value offered with the k-th sequence: all offered values
\* differ, and none is the uninitialized cell
MetaValue(k) == Uninit + k

\* the record of a set call offering n elements and metadata m
NewBox(n, m) ==
    [ val     |-> Elements(Len(boxes) + 1, n),
      addr    |-> as_mut_ptr(Len(boxes) + 1, n),
      meta    |-> m,
      afterOk |-> \E b \in DOMAIN boxes : boxes[b].outcome = "Ok",
      outcome |-> "pending",     \* "pending", "Ok" or "Err"
      won     |-> FALSE,         \* its compare_exchange succeeded
      ret     |-> << >>,         \* the value carried by Err, as a 1-tuple
      forgot  |-> FALSE,         \* mem::forget(value) ran: the container owns it
      drops   |-> [i \in 1..n |-> 0],  \* times each element was destroyed
      meta_drops |-> 0,          \* times the container destroyed its metadata
      live    |-> n > 0 ]        \* its heap allocation is not freed

\* the box whose allocation starts at address p (0 when there is none)
BoxAt(p) ==
    IF \E b \in DOMAIN boxes : boxes[b].live /\ boxes[b].addr = p
    THEN CHOOSE b \in DOMAIN boxes : boxes[b].live /\ boxes[b].addr = p
    ELSE 0

\* what a reader gets through the view (p, l): the first l elements at p
ViewElems(p, l) ==
    IF BoxAt(p) = 0 THEN << >>
    ELSE LET v == boxes[BoxAt(p)].val
         IN  SubSeq(v, 1, IF l <= Len(v) THEN l ELSE Len(v))

Idle == \A t \in Threads : pc[t] = "idle"

\* no call has begun on the fresh container
NoCalls ==
    /\ dropped = FALSE
    /\ boxes = << >>
    /\ pc = [t \in Threads |-> "idle"]
    /\ box = [t \in Threads |-> 0]
    /\ lptr = [t \in Threads |-> NULL]
    /\ result = [t \in Threads |-> None("none")]
    /\ afterOk = [t \in Threads |-> FALSE]
    /\ steps = [t \in Threads |-> 0]
    /\ ngets = 0
    /\ excl = None("none")

(* ---------------------------- OnceSlicePtr ---------------------------- *)

\* mutant: the pointer is stored whatever the field holds (a swap)
compare_exchange_swap(field) == TRUE

\* AtomicPtr::compare_exchange(current = null_mut(), new): succeeds exactly
\* when the field holds null
compare_exchange_ok(field) == field = NULL

\* mutant: the stored length is one short
set_len_short(b) == IF boxes[b].val = << >> THEN 0 ELSE Len(boxes[b].val) - 1

\* the value set stores into `len`
set_len(b) == Len(boxes[b].val)

\* mutant: the losing call hands back an emptied box
set_err_emptied(b) == << << >> >>

\* the value carried by Err(value)
set_err(b) == << boxes[b].val >>

\* mutant: the length is not looked at
get_view_unchecked(o, p, l) ==
    IF p # NULL THEN SomeSlice(o, p, l) ELSE None(o)

\* the decision of get / get_mut from the two loaded values
get_view(o, p, l) ==
    IF p # NULL
    THEN IF l # 0 THEN SomeSlice(o, p, l) ELSE None(o)
    ELSE None(o)

\* OnceSlicePtr::new(): the unset container; it has no metadata fields, which
\* keep one value throughout Spec
new ==
    /\ ptr = NULL
    /\ len = 0
    /\ metadata_flag = FALSE
    /\ metadata = Absent

Init == new /\ NoCalls

\* set is called: `len` and `ptr` of the offered box are taken
set_call(t) ==
    /\ ~dropped
    /\ pc[t] = "idle"
    /\ Len(boxes) + ngets < MaxCalls
    /\ \E n \in Lengths :
          boxes' = Append(boxes, NewBox(n, Uninit))
    /\ box' = [box EXCEPT ![t] = Len(boxes) + 1]
    /\ pc' = [pc EXCEPT ![t] = "set_cas"]
    /\ steps' = [steps EXCEPT ![t] = 0]
    /\ excl' = None("none")
    /\ UNCHANGED <<ptr, len, metadata_flag, metadata, dropped, lptr, result,
                   afterOk, ngets>>

\* mutant: the length is stored before the race is decided
set_compare_exchange_len_first(t) ==
    /\ pc[t] = "set_cas"
    /\ steps' = [steps EXCEPT ![t] = @ + 1]
    /\ len' = set_len(box[t])
    /\ IF compare_exchange_ok(ptr)
       THEN /\ ptr' = boxes[box[t]].addr
            /\ boxes' = [boxes EXCEPT ![box[t]].won = TRUE]
            /\ pc' = [pc EXCEPT ![t] = "set_store"]
            /\ box' = box
       ELSE /\ ptr' = ptr
            /\ boxes' = [boxes EXCEPT ![box[t]].outcome = "Err",
                                      ![box[t]].ret = set_err(box[t])]
            /\ pc' = [pc EXCEPT ![t] = "idle"]
            /\ box' = [box EXCEPT ![t] = 0]
    /\ UNCHANGED <<metadata_flag, metadata, dropped, lptr, result,
                   afterOk, ngets, excl>>

\* the compare_exchange of set; on failure the call returns Err(value)
set_compare_exchange(t) ==
    /\ pc[t] = "set_cas"
    /\ steps' = [steps EXCEPT ![t] = @ + 1]
    /\ IF compare_exchange_ok(ptr)
       THEN /\ ptr' = boxes[box[t]].addr
            /\ boxes' = [boxes EXCEPT ![box[t]].won = TRUE]
            /\ pc' = [pc EXCEPT ![t] = "set_store"]
            /\ box' = box
       ELSE /\ ptr' = ptr
            /\ boxes' = [boxes EXCEPT ![box[t]].outcome = "Err",
                                      ![box[t]].ret = set_err(box[t])]
            /\ pc' = [pc EXCEPT ![t] = "idle"]
            /\ box' = [box EXCEPT ![t] = 0]
    /\ UNCHANGED <<len, metadata_flag, metadata, dropped, lptr, result,
                   afterOk, ngets, excl>>

\* the winner stores the length, forgets the box and returns Ok(())
set_store_len(t) ==
    /\ pc[t] = "set_store"
    /\ steps' = [steps EXCEPT ![t] = @ + 1]
    /\ len' = set_len(box[t])
    /\ boxes' = [boxes EXCEPT ![box[t]].forgot = TRUE,
                              ![box[t]].outcome = "Ok"]
    /\ pc' = [pc EXCEPT ![t] = "idle"]
    /\ box' = [box EXCEPT ![t] = 0]
    /\ UNCHANGED <<ptr, metadata_flag, metadata, dropped, lptr, result,
                   afterOk, ngets, excl>>

\* get is called
get_call(t) ==
    /\ ~dropped
    /\ pc[t] = "idle"
    /\ Len(boxes) + ngets < MaxCalls
    /\ ngets' = ngets + 1
    /\ pc' = [pc EXCEPT ![t] = "get_ptr"]
    /\ afterOk' = [afterOk EXCEPT
                     ![t] = \E b \in DOMAIN boxes : boxes[b].outcome = "Ok"]
    /\ steps' = [steps EXCEPT ![t] = 0]
    /\ excl' = None("none")
    /\ UNCHANGED <<ptr, len, metadata_flag, metadata, dropped, boxes, box,
                   lptr, result>>

\* mutant: get takes the pointer out of the field (a swap with null)
get_load_ptr_take(t) ==
    /\ pc[t] = "get_ptr"
    /\ steps' = [steps EXCEPT ![t] = @ + 1]
    /\ ptr' = NULL
    /\ IF ptr # NULL
       THEN /\ pc' = [pc EXCEPT ![t] = "get_len"]
            /\ lptr' = [lptr EXCEPT ![t] = ptr]
            /\ result' = result
       ELSE /\ pc' = [pc EXCEPT ![t] = "idle"]
            /\ lptr' = lptr
            /\ result' = [result EXCEPT ![t] = get_view("get", ptr, 0)]
    /\ UNCHANGED <<len, metadata_flag, metadata, dropped, boxes, box,
                   afterOk, ngets, excl>>

\* get loads `ptr`; a null pointer ends the call with None
get_load_ptr(t) ==
    /\ pc[t] = "get_ptr"
    /\ steps' = [steps EXCEPT ![t] = @ + 1]
    /\ IF ptr # NULL
       THEN /\ pc' = [pc EXCEPT ![t] = "get_len"]
            /\ lptr' = [lptr EXCEPT ![t] = ptr]
            /\ result' = result
       ELSE /\ pc' = [pc EXCEPT ![t] = "idle"]
            /\ lptr' = lptr
            /\ result' = [result EXCEPT ![t] = get_view("get", ptr, 0)]
    /\ UNCHANGED <<ptr, len, metadata_flag, metadata, dropped, boxes, box,
                   afterOk, ngets, excl>>

\* mutant: get waits for the length to be stored
get_load_len_spin(t) ==
    /\ pc[t] = "get_len"
    /\ steps' = [steps EXCEPT ![t] = @ + 1]
    /\ IF len = 0
       THEN UNCHANGED <<result, pc, lptr>>
       ELSE /\ result' = [result EXCEPT ![t] = get_view("get", lptr[t], len)]
            /\ pc' = [pc EXCEPT ![t] = "idle"]
            /\ lptr' = [lptr EXCEPT ![t] = NULL]
    /\ UNCHANGED <<ptr, len, metadata_flag, metadata, dropped, boxes, box,
                   afterOk, ngets, excl>>

\* get loads `len` and returns
get_load_len(t) ==
    /\ pc[t] = "get_len"
    /\ steps' = [steps EXCEPT ![t] = @ + 1]
    /\ result' = [result EXCEPT ![t] = get_view("get", lptr[t], len)]
    /\ pc' = [pc EXCEPT ![t] = "idle"]
    /\ lptr' = [lptr EXCEPT ![t] = NULL]
    /\ UNCHANGED <<ptr, len, metadata_flag, metadata, dropped, boxes, box,
                   afterOk, ngets, excl>>

\* mutant: get_mut does not look at the length
get_mut_view_unchecked(p, l) ==
    IF p # NULL THEN SomeSlice("get_mut", p, l) ELSE None("get_mut")

\* the decision of get_mut from the two loaded values
get_mut_view(p, l) ==
    IF p # NULL
    THEN IF l # 0 THEN SomeSlice("get_mut", p, l) ELSE None("get_mut")
    ELSE None("get_mut")

\* get_mut: both loads and the decision, under exclusive access
get_mut ==
    /\ ~dropped
    /\ Idle
    /\ excl' = get_mut_view(ptr, IF ptr # NULL THEN len ELSE 0)
    /\ UNCHANGED <<ptr, len, metadata_flag, metadata, dropped, boxes, pc, box,
                   lptr, result, afterOk, steps, ngets>>

\* mutant: no destructor runs
drop_in_place_skipped(bs, p, l) == bs

\* ptr::slice_from_raw_parts_mut(p, l).drop_in_place(): the destructor of
\* each of the l elements at p runs; the allocation itself is not released
drop_in_place(bs, p, l) ==
    [b \in DOMAIN bs |->
        IF bs[b].live /\ bs[b].addr = p
        THEN [bs[b] EXCEPT !.drops =
                 [i \in DOMAIN bs[b].drops |->
                     IF i <= l THEN bs[b].drops[i] + 1 ELSE bs[b].drops[i]]]
        ELSE bs[b]]

\* Drop::drop
drop ==
    /\ ~dropped
    /\ Idle
    /\ dropped' = TRUE
    /\ boxes' = IF ptr # NULL THEN drop_in_place(boxes, ptr, len) ELSE boxes
    /\ UNCHANGED <<ptr, len, metadata_flag, metadata, pc, box, lptr, result,
                   afterOk, steps, ngets, excl>>

Next ==
    \/ \E t \in Threads : set_call(t)
    \/ \E t \in Threads : set_compare_exchange(t)
    \/ \E t \in Threads : set_store_len(t)
    \/ \E t \in Threads : get_call(t)
    \/ \E t \in Threads : get_load_ptr(t)
    \/ \E t \in Threads : get_load_len(t)
    \/ get_mut
    \/ drop

Spec == Init /\ [][Next]_vars

(* ------------------------ OnceSlicePtrMetadata ------------------------ *)

\* mutant: the pointer is stored whatever the field holds (a swap)
Metadata_compare_exchange_swap(field) == TRUE

\* AtomicPtr::compare_exchange(current = null_mut(), new): succeeds exactly
\* when the field holds null
Metadata_compare_exchange_ok(field) == field = NULL

\* the value carried by Err((boxed, metadata))
Metadata_set_err(b) == << boxes[b].val, boxes[b].meta >>

\* the value set stores into `len`
Metadata_set_len(b) == Len(boxes[b].val)

\* the decision of get / get_mut from the two loaded values
Metadata_get_view(o, p, l) ==
    IF p # NULL
    THEN IF l # 0 THEN SomeSlice(o, p, l) ELSE None(o)
    ELSE None(o)

\* mutant: the flag is not looked at
Metadata_get_metadata_view_unchecked(o, flag, cell) == SomeMeta(o, cell)

\* the decision of get_metadata / get_mut_metadata from the loaded flag;
\* cell is what the read of the metadata cell gives
Metadata_get_metadata_view(o, flag, cell) ==
    IF flag THEN SomeMeta(o, cell) ELSE None(o)

\* what a read of the metadata cell can give: the value written, or, while
\* the cell is uninitialized, anything
ReadCell ==
    IF metadata = Uninit
    THEN {Uninit} \cup {boxes[b].meta : b \in DOMAIN boxes}
    ELSE {metadata}

\* OnceSlicePtrMetadata::new(): the unset container
Metadata_new ==
    /\ ptr = NULL
    /\ len = 0
    /\ metadata = Uninit
    /\ metadata_flag = FALSE

Metadata_Init == Metadata_new /\ NoCalls

\* set is called with the pair (boxed, metadata)
Metadata_set_call(t) ==
    /\ ~dropped
    /\ pc[t] = "idle"
    /\ Len(boxes) + ngets < MaxCalls
    /\ \E n \in Lengths :
          boxes' = Append(boxes, NewBox(n, MetaValue(Len(boxes) + 1)))
    /\ box' = [box EXCEPT ![t] = Len(boxes) + 1]
    /\ pc' = [pc EXCEPT ![t] = "set_cas"]
    /\ steps' = [steps EXCEPT ![t] = 0]
    /\ excl' = None("none")
    /\ UNCHANGED <<ptr, len, metadata_flag, metadata, dropped, lptr, result,
                   afterOk, ngets>>

\* the compare_exchange of set; on failure the call returns Err((boxed, metadata))
Metadata_set_compare_exchange(t) ==
    /\ pc[t] = "set_cas"
    /\ steps' = [steps EXCEPT ![t] = @ + 1]
    /\ IF Metadata_compare_exchange_ok(ptr)
       THEN /\ ptr' = boxes[box[t]].addr
            /\ boxes' = [boxes EXCEPT ![box[t]].won = TRUE]
            /\ pc' = [pc EXCEPT ![t] = "set_store"]
            /\ box' = box
       ELSE /\ ptr' = ptr
            /\ boxes' = [boxes EXCEPT ![box[t]].outcome = "Err",
                                      ![box[t]].ret = Metadata_set_err(box[t])]
            /\ pc' = [pc EXCEPT ![t] = "idle"]
            /\ box' = [box EXCEPT ![t] = 0]
    /\ UNCHANGED <<len, metadata_flag, metadata, dropped, lptr, result,
                   afterOk, ngets, excl>>

\* the winner stores the length
Metadata_set_store_len(t) ==
    /\ pc[t] = "set_store"
    /\ steps' = [steps EXCEPT ![t] = @ + 1]
    /\ len' = Metadata_set_len(box[t])
    /\ pc' = [pc EXCEPT ![t] = "set_write"]
    /\ UNCHANGED <<ptr, metadata_flag, metadata, dropped, boxes, box, lptr,
                   result, afterOk, ngets, excl>>

\* the winner writes the metadata cell (a plain write), forgets the box and
\* returns Ok(()); metadata_flag is left as it is
Metadata_set_write(t) ==
    /\ pc[t] = "set_write"
    /\ metadata' = boxes[box[t]].meta
    /\ boxes' = [boxes EXCEPT ![box[t]].forgot = TRUE,
                              ![box[t]].outcome = "Ok"]
    /\ pc' = [pc EXCEPT ![t] = "idle"]
    /\ box' = [box EXCEPT ![t] = 0]
    /\ UNCHANGED <<ptr, len, metadata_flag, dropped, lptr, result, afterOk,
                   steps, ngets, excl>>

\* get is called
Metadata_get_call(t) ==
    /\ ~dropped
    /\ pc[t] = "idle"
    /\ Len(boxes) + ngets < MaxCalls
    /\ ngets' = ngets + 1
    /\ pc' = [pc EXCEPT ![t] = "get_ptr"]
    /\ afterOk' = [afterOk EXCEPT
                     ![t] = \E b \in DOMAIN boxes : boxes[b].outcome = "Ok"]
    /\ steps' = [steps EXCEPT ![t] = 0]
    /\ excl' = None("none")
    /\ UNCHANGED <<ptr, len, metadata_flag, metadata, dropped, boxes, box,
                   lptr, result>>

\* get loads `ptr`; a null pointer ends the call with None
Metadata_get_load_ptr(t) ==
    /\ pc[t] = "get_ptr"
    /\ steps' = [steps EXCEPT ![t] = @ + 1]
    /\ IF ptr # NULL
       THEN /\ pc' = [pc EXCEPT ![t] = "get_len"]
            /\ lptr' = [lptr EXCEPT ![t] = ptr]
            /\ result' = result
       ELSE /\ pc' = [pc EXCEPT ![t] = "idle"]
            /\ lptr' = lptr
            /\ result' = [result EXCEPT ![t] = Metadata_get_view("get", ptr, 0)]
    /\ UNCHANGED <<ptr, len, metadata_flag, metadata, dropped, boxes, box,
                   afterOk, ngets, excl>>

\* get loads `len` and returns
Metadata_get_load_len(t) ==
    /\ pc[t] = "get_len"
    /\ steps' = [steps EXCEPT ![t] = @ + 1]
    /\ result' = [result EXCEPT ![t] = Metadata_get_view("get", lptr[t], len)]
    /\ pc' = [pc EXCEPT ![t] = "idle"]
    /\ lptr' = [lptr EXCEPT ![t] = NULL]
    /\ UNCHANGED <<ptr, len, metadata_flag, metadata, dropped, boxes, box,
                   afterOk, ngets, excl>>

\* get_metadata is called
Metadata_get_metadata_call(t) ==
    /\ ~dropped
    /\ pc[t] = "idle"
    /\ Len(boxes) + ngets < MaxCalls
    /\ ngets' = ngets + 1
    /\ pc' = [pc EXCEPT ![t] = "get_metadata_flag"]
    /\ afterOk' = [afterOk EXCEPT
                     ![t] = \E b \in DOMAIN boxes : boxes[b].outcome = "Ok"]
    /\ steps' = [steps EXCEPT ![t] = 0]
    /\ excl' = None("none")
    /\ UNCHANGED <<ptr, len, metadata_flag, metadata, dropped, boxes, box,
                   lptr, result>>

\* get_metadata loads the flag and returns
Metadata_get_metadata_load(t) ==
    /\ pc[t] = "get_metadata_flag"
    /\ steps' = [steps EXCEPT ![t] = @ + 1]
    /\ \E cell \in ReadCell :
          result' = [result EXCEPT ![t] =
              Metadata_get_metadata_view("get_metadata", metadata_flag, cell)]
    /\ pc' = [pc EXCEPT ![t] = "idle"]
    /\ UNCHANGED <<ptr, len, metadata_flag, metadata, dropped, boxes, box,
                   lptr, afterOk, ngets, excl>>

\* the decision of get_mut from the two loaded values
Metadata_get_mut_view(p, l) ==
    IF p # NULL
    THEN IF l # 0 THEN SomeSlice("get_mut", p, l) ELSE None("get_mut")
    ELSE None("get_mut")

\* get_mut: both loads and the decision, under exclusive access
Metadata_get_mut ==
    /\ ~dropped
    /\ Idle
    /\ excl' = Metadata_get_mut_view(ptr, IF ptr # NULL THEN len ELSE 0)
    /\ UNCHANGED <<ptr, len, metadata_flag, metadata, dropped, boxes, pc, box,
                   lptr, result, afterOk, steps, ngets>>

\* get_mut_metadata: the flag load and the decision, under exclusive access
Metadata_get_mut_metadata ==
    /\ ~dropped
    /\ Idle
    /\ \E cell \in ReadCell :
          excl' = Metadata_get_metadata_view("get_mut_metadata",
                                             metadata_flag, cell)
    /\ UNCHANGED <<ptr, len, metadata_flag, metadata, dropped, boxes, pc, box,
                   lptr, result, afterOk, steps, ngets>>

\* ptr::slice_from_raw_parts_mut(p, l).drop_in_place(): the destructor of
\* each of the l elements at p runs; the allocation itself is not released
Metadata_drop_in_place(bs, p, l) ==
    [b \in DOMAIN bs |->
        IF bs[b].live /\ bs[b].addr = p
        THEN [bs[b] EXCEPT !.drops =
                 [i \in DOMAIN bs[b].drops |->
                     IF i <= l THEN bs[b].drops[i] + 1 ELSE bs[b].drops[i]]]
        ELSE bs[b]]

\* mutant: drop also runs the destructor of the stored metadata value
Metadata_drop_with_metadata ==
    /\ ~dropped
    /\ Idle
    /\ dropped' = TRUE
    /\ boxes' = IF ptr # NULL
                THEN [b \in DOMAIN boxes |->
                        IF boxes[b].meta = metadata
                        THEN [Metadata_drop_in_place(boxes, ptr, len)[b]
                                 EXCEPT !.meta_drops = @ + 1]
                        ELSE Metadata_drop_in_place(boxes, ptr, len)[b]]
                ELSE boxes
    /\ UNCHANGED <<ptr, len, metadata_flag, metadata, pc, box, lptr, result,
                   afterOk, steps, ngets, excl>>

\* Drop::drop: the elements are destroyed; the metadata cell is not touched
Metadata_drop ==
    /\ ~dropped
    /\ Idle
    /\ dropped' = TRUE
    /\ boxes' = IF ptr # NULL THEN Metadata_drop_in_place(boxes, ptr, len) ELSE boxes
    /\ UNCHANGED <<ptr, len, metadata_flag, metadata, pc, box, lptr, result,
                   afterOk, steps, ngets, excl>>

NextMetadata ==
    \/ \E t \in Threads : Metadata_set_call(t)
    \/ \E t \in Threads : Metadata_set_compare_exchange(t)
    \/ \E t \in Threads : Metadata_set_store_len(t)
    \/ \E t \in Threads : Metadata_set_write(t)
    \/ \E t \in Threads : Metadata_get_call(t)
    \/ \E t \in Threads : Metadata_get_load_ptr(t)
    \/ \E t \in Threads : Metadata_get_load_len(t)
    \/ \E t \in Threads : Metadata_get_metadata_call(t)
    \/ \E t \in Threads : Metadata_get_metadata_load(t)
    \/ Metadata_get_mut
    \/ Metadata_get_mut_metadata
    \/ Metadata_drop

SpecMetadata == Metadata_Init /\ [][NextMetadata]_vars

(* ---------------------------- both variants --------------------------- *)

\* a container of either type; its type is fixed by new() and each type
\* runs its own methods
InitBoth == Init \/ Metadata_Init

NextBoth ==
    \/ metadata = Absent /\ Next
    \/ metadata # Absent /\ NextMetadata

SpecBoth == InitBoth /\ [][NextBoth]_vars

(* ------------------------------ properties ---------------------------- *)

\* the set calls whose compare_exchange succeeded / that returned Ok / Err
Won == {b \in DOMAIN boxes : boxes[b].won}
ReturnedOk == {b \in DOMAIN boxes : boxes[b].outcome = "Ok"}
ReturnedErr == {b \in DOMAIN boxes : boxes[b].outcome = "Err"}

\* thread t is inside a get or get_metadata call
InGet(t) == pc[t] \in {"get_ptr", "get_len", "get_metadata_flag"}

\* result[t] and afterOk[t] describe a completed get / get_metadata call
GetDone(t) == result[t].op = "get" /\ ~InGet(t)
GetMetadataDone(t) == result[t].op = "get_metadata" /\ ~InGet(t)

\* the view v shows exactly the sequence offered by set call b
ViewOf(v, b) ==
    /\ v.some
    /\ v.ptr = boxes[b].addr
    /\ v.len = Len(boxes[b].val)
    /\ ViewElems(v.ptr, v.len) = boxes[b].val

\* C1 (At-most-once-set): among the set calls on a fresh OnceSlicePtr, in
\* every interleaving, at most one compare_exchange succeeds and at most one
\* call returns Ok; once all calls have returned (and there was one), exactly
\* one returned Ok and every other one returned Err carrying the very
\* sequence it offered; a sequence is kept by the container (forgotten)
\* exactly when its call won, it is handed back exactly when its call lost,
\* never both and never neither.
C1_AtMostOnceSet ==
    /\ Cardinality(Won) <= 1
    /\ Cardinality(ReturnedOk) <= 1
    /\ \A b \in DOMAIN boxes :
          /\ boxes[b].outcome = "Ok" =>
                boxes[b].won /\ boxes[b].forgot /\ boxes[b].ret = << >>
          /\ boxes[b].outcome = "Err" =>
                ~boxes[b].won /\ ~boxes[b].forgot
                /\ boxes[b].ret = << boxes[b].val >>
          /\ boxes[b].outcome = "pending" =>
                ~boxes[b].forgot /\ boxes[b].ret = << >>
    /\ (Idle /\ boxes # << >>) =>
          /\ Cardinality(ReturnedOk) = 1
          /\ ReturnedOk \cup ReturnedErr = DOMAIN boxes

\* C1 witness: two set calls overlap: one has won its compare_exchange and
\* not yet returned, the other has returned Err with its non-empty sequence.
C1_Witness ==
    \E t \in Threads : \E b \in DOMAIN boxes :
        /\ pc[t] = "set_store"
        /\ boxes[b].outcome = "Err"
        /\ Len(boxes[b].val) = MaxLen
        /\ boxes[b].ret = << boxes[b].val >>

\* C2 (No torn read): whenever a get on OnceSlicePtr has returned Some(view),
\* the view's pointer is the pointer of the set call that won, its length is
\* that call's length (never zero, never another length), and the elements
\* read through it are the winner's.
C2_NoTornRead ==
    \A t \in Threads :
        (result[t].op = "get" /\ result[t].some) =>
            /\ result[t].len # 0
            /\ \E b \in Won : ViewOf(result[t], b)

\* C2 witness: a get that began before any set had returned Ok, and so ran
\* together with the winning set, returned Some.
C2_Witness ==
    \E t \in Threads :
        GetDone(t) /\ ~afterOk[t] /\ result[t].some /\ result[t].len = MaxLen

\* C3 (Visibility): a get that began after a set with a non-empty sequence
\* returned Ok returns Some of exactly that sequence; while no set call has
\* executed its compare_exchange, every completed get has returned None.
C3_Visibility ==
    /\ \A t \in Threads : \A b \in ReturnedOk :
          (GetDone(t) /\ afterOk[t] /\ boxes[b].val # << >>) =>
              ViewOf(result[t], b)
    /\ (\A b \in DOMAIN boxes : ~boxes[b].won /\ boxes[b].outcome = "pending") =>
          \A t \in Threads : GetDone(t) => ~result[t].some

\* C3 witness: after a winner and a loser have returned, a get that began
\* after the Ok returned Some.
C3_Witness ==
    \E t \in Threads :
        /\ GetDone(t) /\ afterOk[t] /\ result[t].some
        /\ ReturnedErr # {}

\* C4 (Idempotent failure): every set call that began after a set returned
\* Ok returns Err carrying its offered sequence, and from the moment a set
\* has returned Ok the container holds the winner's pointer and length, so a
\* get afterwards shows the winner's sequence.
C4_IdempotentFailure ==
    /\ \A b \in DOMAIN boxes :
          (boxes[b].afterOk /\ boxes[b].outcome # "pending") =>
              boxes[b].outcome = "Err" /\ boxes[b].ret = << boxes[b].val >>
    /\ \A w \in ReturnedOk :
          /\ ptr = boxes[w].addr
          /\ len = Len(boxes[w].val)
          /\ get_view("get", ptr, len) =
                IF boxes[w].val = << >> THEN None("get")
                ELSE SomeSlice("get", boxes[w].addr, Len(boxes[w].val))

\* C4 witness: set([1,2,3]) returned Ok, then set([4,5,6]) returned
\* Err([4,5,6]), then a get showed [1,2,3].
C4_Witness ==
    /\ Len(boxes) = 2
    /\ boxes[1].val = <<1, 2, 3>> /\ boxes[1].outcome = "Ok"
    /\ boxes[2].val = <<4, 5, 6>> /\ boxes[2].afterOk
    /\ boxes[2].outcome = "Err" /\ boxes[2].ret = << <<4, 5, 6>> >>
    /\ \E t \in Threads :
          /\ GetDone(t) /\ afterOk[t] /\ result[t].some
          /\ ViewElems(result[t].ptr, result[t].len) = <<1, 2, 3>>

\* the next atomic operation of the call thread t is in
CallStep(t) ==
    \/ set_compare_exchange(t)
    \/ set_store_len(t)
    \/ get_load_ptr(t)
    \/ get_load_len(t)

\* C5 (Wait-freedom): a thread inside a set or get call on OnceSlicePtr can
\* always take its next step, whatever the other threads are doing, and no
\* call executes more than two atomic operations (set: the compare_exchange
\* and at most one store; get: at most two loads).
C5_WaitFree ==
    \A t \in Threads :
        /\ pc[t] # "idle" => ENABLED CallStep(t)
        /\ steps[t] <= 2
        /\ pc[t] \in {"set_cas", "get_ptr"} => steps[t] = 0
        /\ pc[t] \in {"set_store", "get_len"} => steps[t] = 1

\* C5 witness: a get did both its loads and returned None while another
\* thread is stopped between its winning compare_exchange and its store of
\* the length.
C5_Witness ==
    \E a \in Threads, b \in Threads :
        /\ a # b
        /\ pc[a] = "set_store"
        /\ GetDone(b) /\ steps[b] = 2 /\ ~result[b].some

\* C6 (Elements released once): after the drop of an OnceSlicePtr every
\* element of the sequence the container kept has been destroyed exactly
\* once, the number destroyed being the length read from `len`; elements of
\* sequences the container did not keep (handed back, or no set succeeded)
\* are never destroyed by it; before the drop nothing is destroyed.
C6_ElementsReleasedOnce ==
    \A b \in DOMAIN boxes :
        /\ \A i \in 1..Len(boxes[b].val) :
              boxes[b].drops[i] = IF dropped /\ boxes[b].forgot THEN 1 ELSE 0
        /\ (dropped /\ boxes[b].forgot) => len = Len(boxes[b].val)

\* C6 witness: the container was dropped after it kept a sequence of MaxLen
\* elements and handed another non-empty one back.
C6_Witness ==
    /\ dropped
    /\ \E b \in ReturnedOk : Len(boxes[b].val) = MaxLen /\ len = MaxLen
    /\ \E b \in ReturnedErr : boxes[b].val # << >>

\* C7 (No leak of the backing allocation), as claimed: once the container
\* is dropped, no allocation it took ownership of is still live.
C7_NoLeak ==
    dropped => \A b \in DOMAIN boxes : boxes[b].forgot => ~boxes[b].live

\* C8 (Metadata is published), as claimed: a get_metadata that began after
\* a set on OnceSlicePtrMetadata returned Ok returns Some of the winner's
\* metadata value, and so does get_mut_metadata.
C8_MetadataPublished ==
    \A w \in ReturnedOk :
        /\ \A t \in Threads :
              (GetMetadataDone(t) /\ afterOk[t]) =>
                  result[t].some /\ result[t].meta = boxes[w].meta
        /\ excl.op = "get_mut_metadata" =>
              excl.some /\ excl.meta = boxes[w].meta

\* C9 (Write-once contract for the pair): among the set calls on a fresh
\* OnceSlicePtrMetadata at most one returns Ok; once all have returned,
\* exactly one returned Ok and every other one returned Err carrying the
\* sequence and the metadata value it offered; a get that returned Some
\* shows the winner's pointer and length, and a get that began after a
\* non-empty set returned Ok returns Some.
C9_MetadataWriteOnce ==
    /\ Cardinality(Won) <= 1
    /\ Cardinality(ReturnedOk) <= 1
    /\ \A b \in DOMAIN boxes :
          /\ boxes[b].outcome = "Ok" =>
                boxes[b].won /\ boxes[b].forgot /\ boxes[b].ret = << >>
          /\ boxes[b].outcome = "Err" =>
                ~boxes[b].won /\ ~boxes[b].forgot
                /\ boxes[b].ret = << boxes[b].val, MetaValue(b) >>
          /\ boxes[b].outcome = "pending" =>
                ~boxes[b].forgot /\ boxes[b].ret = << >>
    /\ (Idle /\ boxes # << >>) =>
          /\ Cardinality(ReturnedOk) = 1
          /\ ReturnedOk \cup ReturnedErr = DOMAIN boxes
    /\ \A t \in Threads :
          /\ (result[t].op = "get" /\ result[t].some) =>
                result[t].len # 0 /\ \E b \in Won : ViewOf(result[t], b)
          /\ \A b \in ReturnedOk :
                (GetDone(t) /\ afterOk[t] /\ boxes[b].val # << >>) =>
                    ViewOf(result[t], b)

\* C9 witness: two set calls overlapped, the loser got its pair back, and a
\* get after the winner's Ok returned Some.
C9_Witness ==
    /\ \E b \in ReturnedErr :
          /\ ~boxes[b].afterOk
          /\ boxes[b].ret = << boxes[b].val, MetaValue(b) >>
          /\ boxes[b].val # << >>
    /\ \E t \in Threads : GetDone(t) /\ afterOk[t] /\ result[t].some

\* the winning set call has completed its write of the metadata cell
MetadataWritten ==
    \E b \in ReturnedOk : metadata = boxes[b].meta /\ metadata # Uninit

\* C10 (Invariant I4): whenever metadata_flag is true the winner's write of
\* the metadata cell is complete, and whenever get_metadata or
\* get_mut_metadata has returned Some, the cell was written and the view
\* shows the written value.
C10_FlagImpliesWritten ==
    /\ metadata_flag => MetadataWritten
    /\ \A t \in Threads :
          (result[t].op = "get_metadata" /\ result[t].some) =>
              MetadataWritten /\ result[t].meta = metadata
    /\ (excl.op = "get_mut_metadata" /\ excl.some) =>
          MetadataWritten /\ excl.meta = metadata

\* C10 witness: a get_metadata call has returned and the metadata cell is
\* still unwritten (so it was when the call ran), the winning set call
\* standing between its store of the length and its write of the cell.
C10_Witness ==
    \E a \in Threads, b \in Threads :
        /\ pc[a] = "set_write"
        /\ metadata = Uninit
        /\ GetMetadataDone(b) /\ steps[b] = 1

\* C11 (Write-once fields): in OnceSlicePtr a step changes `ptr` only from
\* null, to the address of the box of the call taking its compare_exchange
\* step, which thereby wins; a step changes `len` only from 0, after `ptr`
\* was set, to the length of the winner's box, and it is the winner's store
\* step; the store step is taken by the winner alone, with `len` still 0;
\* a step in which a call returns Err changes neither.
C11_WriteOnceFields ==
    [][ /\ ptr' # ptr =>
              /\ ptr = NULL
              /\ \E t \in Threads :
                    /\ pc[t] = "set_cas" /\ pc'[t] = "set_store"
                    /\ ptr' = boxes[box[t]].addr
                    /\ Won = {} /\ boxes'[box[t]].won
        /\ len' # len =>
              /\ len = 0
              /\ ptr # NULL /\ ptr' = ptr
              /\ \E t \in Threads :
                    /\ pc[t] = "set_store" /\ pc'[t] = "idle"
                    /\ Won = {box[t]}
                    /\ ptr = boxes[box[t]].addr
                    /\ len' = Len(boxes[box[t]].val)
        /\ \A t \in Threads :
              (pc[t] = "set_store" /\ pc'[t] = "idle") =>
                  Won = {box[t]} /\ len = 0 /\ ptr' = ptr
        /\ \A b \in DOMAIN boxes :
              (boxes[b].outcome = "pending" /\ boxes'[b].outcome = "Err") =>
                  ptr' = ptr /\ len' = len
      ]_vars

\* C11 witness: both fields were written by the winner, and a call that
\* offered another length has lost.
C11_Witness ==
    /\ len = MaxLen
    /\ \E w \in Won : ptr = boxes[w].addr /\ Len(boxes[w].val) = MaxLen
    /\ \E b \in ReturnedErr : Len(boxes[b].val) = 1

\* C12 (No pending state): while the winner of OnceSlicePtr stands between
\* its compare_exchange and its store of the length, every get that has
\* returned has returned None; and whatever a get returns is either None
\* or the complete sequence of the winner, whose length is stored.
C12_NoPendingState ==
    /\ (\E a \in Threads : pc[a] = "set_store") =>
          \A t \in Threads : result[t].op = "get" => result[t] = None("get")
    /\ \A t \in Threads :
          result[t].op = "get" =>
              \/ result[t] = None("get")
              \/ \E b \in Won :
                    /\ ViewOf(result[t], b)
                    /\ result[t].len # 0
                    /\ len = Len(boxes[b].val)

\* C12 witness: a get loaded the non-null pointer and then the length 0 and
\* returned None, the winner of a MaxLen-element set not having stored yet.
C12_Witness ==
    \E a \in Threads, b \in Threads :
        /\ pc[a] = "set_store" /\ Len(boxes[box[a]].val) = MaxLen
        /\ ptr = boxes[box[a]].addr /\ len = 0
        /\ GetDone(b) /\ steps[b] = 2 /\ result[b] = None("get")

\* C13 (Empty-sequence policy): when the call that won on OnceSlicePtr
\* offered a zero-length sequence, it does not fail, no other call wins and
\* every other call that returned returned Err with its input, `ptr` is
\* non-null and `len` is 0, and every get and get_mut result is None; a
\* zero-length set fails only if another call won.
C13_EmptySequence ==
    /\ \A w \in Won :
          boxes[w].val = << >> =>
              /\ boxes[w].outcome # "Err"
              /\ ptr # NULL /\ len = 0
              /\ \A b \in DOMAIN boxes \ {w} :
                    /\ ~boxes[b].won
                    /\ boxes[b].outcome # "pending" =>
                          /\ boxes[b].outcome = "Err"
                          /\ boxes[b].ret = << boxes[b].val >>
              /\ \A t \in Threads : result[t].op = "get" => ~result[t].some
              /\ excl.op = "get_mut" => ~excl.some
    /\ \A b \in ReturnedErr : boxes[b].val = << >> => Won \ {b} # {}

\* C13 witness: set(empty) returned Ok, a later non-empty set returned Err,
\* a get after the Ok returned None, and so did get_mut at the end.
C13_Witness ==
    /\ \E w \in ReturnedOk : boxes[w].val = << >>
    /\ \E b \in ReturnedErr : boxes[b].afterOk /\ Len(boxes[b].val) = MaxLen
    /\ \E t \in Threads : GetDone(t) /\ afterOk[t] /\ ~result[t].some
    /\ excl.op = "get_mut" /\ ~excl.some

\* C14 (A failing set has no effect): in both variants, the step in which a
\* set call's compare_exchange fails and the call returns Err leaves `ptr`,
\* `len`, `metadata_flag` and the metadata cell as they were, and the Err
\* carries what the caller offered.
C14_FailedSetNoEffect ==
    [][ \A b \in DOMAIN boxes :
          (boxes[b].outcome = "pending" /\ boxes'[b].outcome = "Err") =>
              /\ ptr' = ptr
              /\ len' = len
              /\ metadata_flag' = metadata_flag
              /\ metadata' = metadata
              /\ boxes'[b].ret = IF metadata = Absent
                                 THEN << boxes[b].val >>
                                 ELSE << boxes[b].val, boxes[b].meta >>
      ]_vars

\* C14 witness: in the metadata variant a call offering another length and
\* another metadata value has returned Err, and the fields hold what the
\* winner wrote.
C14_Witness ==
    \E w \in ReturnedOk, b \in ReturnedErr :
        /\ boxes[b].val # << >>
        /\ Len(boxes[b].val) # Len(boxes[w].val)
        /\ ptr = boxes[w].addr /\ len = Len(boxes[w].val)
        /\ metadata = boxes[w].meta /\ metadata # boxes[b].meta
        /\ metadata_flag = FALSE

\* a call has won the race and not yet finished its write of the cell
WritePending == \E a \in Threads : pc[a] \in {"set_store", "set_write"}

\* C15 (Exclusive metadata write): in OnceSlicePtrMetadata the metadata cell
\* changes only from uninitialized, in the write step of the one call that
\* won the compare_exchange, to the value that call offered; never are two
\* calls past a successful compare_exchange; and no step reads the cell
\* (an accessor returning Some) while the winner's write is still to come.
C15_ExclusiveMetadataWrite ==
    /\ [](Cardinality({a \in Threads : pc[a] \in {"set_store", "set_write"}}) <= 1)
    /\ [][ /\ metadata' # metadata =>
                 /\ metadata = Uninit
                 /\ \E t \in Threads :
                       /\ pc[t] = "set_write" /\ pc'[t] = "idle"
                       /\ Won = {box[t]}
                       /\ metadata' = boxes[box[t]].meta
           /\ \A t \in Threads :
                 (pc[t] = "get_metadata_flag" /\ pc'[t] = "idle"
                    /\ result'[t].some) => ~WritePending
           /\ (excl'.op = "get_mut_metadata" /\ excl'.some) => ~WritePending
         ]_vars

\* C15 witness: the cell holds the winner's value, a call that ran together
\* with the winner has lost, and a get_metadata that began before the
\* winner returned has returned.
C15_Witness ==
    /\ \E w \in ReturnedOk : metadata = boxes[w].meta
    /\ \E b \in ReturnedErr : ~boxes[b].afterOk
    /\ \E t \in Threads : GetMetadataDone(t) /\ ~afterOk[t]

\* C16 (Published as one unit), as claimed: whenever a get on
\* OnceSlicePtrMetadata has returned Some, the winner's metadata value has
\* been written into the cell.
C16_PublishedAsOneUnit ==
    \A t \in Threads :
        (result[t].op = "get" /\ result[t].some) => metadata # Uninit

\* C17 (Metadata cleanup): the container never runs the destructor of a
\* metadata value, the dropped container's cell still holding the winner's
\* value; after the drop each element of the kept sequence has been
\* destroyed exactly once, and no other element ever is.
C17_MetadataCleanup ==
    \A b \in DOMAIN boxes :
        /\ boxes[b].meta_drops = 0
        /\ \A i \in 1..Len(boxes[b].val) :
              boxes[b].drops[i] = IF dropped /\ boxes[b].forgot THEN 1 ELSE 0
        /\ (dropped /\ boxes[b].forgot) =>
              len = Len(boxes[b].val) /\ metadata = boxes[b].meta

\* C17 witness: an OnceSlicePtrMetadata holding MaxLen elements and a
\* metadata value was dropped.
C17_Witness ==
    /\ dropped
    /\ \E w \in ReturnedOk :
          /\ Len(boxes[w].val) = MaxLen
          /\ metadata = boxes[w].meta /\ metadata # Uninit
          /\ \A i \in 1..MaxLen : boxes[w].drops[i] = 1

\* what get would return if run alone in the current state
GetWould ==
    IF metadata = Absent
    THEN get_view("get", ptr, IF ptr # NULL THEN len ELSE 0)
    ELSE Metadata_get_view("get", ptr, IF ptr # NULL THEN len ELSE 0)

\* C18 (get_mut agrees with get): in both variants, what get_mut returned
\* under exclusive access is Some exactly when get would return Some in
\* that state, with the same pointer and the same length.
C18_GetMutAgreesWithGet ==
    excl.op = "get_mut" =>
        /\ excl.some = GetWould.some
        /\ excl.ptr = GetWould.ptr
        /\ excl.len = GetWould.len

\* C18 witness: get_mut returned the MaxLen-element sequence of the
\* metadata variant.
C18_Witness ==
    /\ excl.op = "get_mut" /\ excl.some /\ excl.len = MaxLen
    /\ metadata # Absent

=============================================================================
